---- MODULE Spec2Model ----
(***************************************************************************)
(* Model of allennlp/steps/examples.py: the data-preparation steps         *)
(* TextOnlyDataset ("text_only"), Tokenize ("hf_tokenizer") and            *)
(* PiqaInstances ("piqa_instances").                                       *)
(*                                                                         *)
(* Python values are tagged records: S(text) a str, N(n) an int, L(items)  *)
(* a list, D(entries) a dict (entries in insertion order, each entry a     *)
(* pair <<key, value>>).  Dict keys and field paths are sequences of       *)
(* one-character strings, so that f"{prefix}.{name}", str.lstrip(".") and  *)
(* re.fullmatch are computed character by character.  Python indices are   *)
(* 0-based; sequence positions here are 1-based, position k is index k-1.  *)
(***************************************************************************)
EXTENDS Integers, Sequences, FiniteSets, TLC

VARIABLES
    step,              \* which registered step is being run
    args,              \* the declared arguments of run()
    input,             \* the AllenNlpDataset passed as `input` (vocab is a heap reference)
    heap,              \* Vocabulary objects, by reference
    piqa,              \* what datasets.load_dataset("piqa") returns
    pc,                \* position inside run()
    tokenizer,         \* local: the loaded tokenizer
    field_names_used,  \* local of Tokenize.run
    strings,           \* local of Tokenize.run
    encoded,           \* local of Tokenize.run
    string_to_field,   \* local of Tokenize.run
    new_splits,        \* local of Tokenize.run
    vocab,             \* local: reference of the vocabulary being built
    visited,           \* names already taken by `for name in field_names_used`
    dataset,           \* local of PiqaInstances.run
    tokenized,         \* local of PiqaInstances.run
    calls,             \* every batch_encode_plus call made so far (its first argument)
    loaded,            \* datasets.load_dataset has been called
    result,            \* the returned AllenNlpDataset
    exception,         \* the exception that left run(), if any
    runNo,             \* 1 for the first invocation, 2 for the repeated one
    firstOutcome       \* what the first invocation produced

vars == <<step, args, input, heap, piqa, pc, tokenizer, field_names_used, strings,
          encoded, string_to_field, new_splits, vocab, visited, dataset, tokenized,
          calls, loaded, result, exception, runNo, firstOutcome>>

-----------------------------------------------------------------------------
(* Bounds of the explored inputs *)

MaxInstances == 2
MaxSplits == 2

-----------------------------------------------------------------------------
(* Python values *)

None == [t |-> "None"]
S(text) == [t |-> "str", s |-> text]
N(n) == [t |-> "int", n |-> n]
L(items) == [t |-> "list", items |-> items]
D(entries) == [t |-> "dict", entries |-> entries]

Range(seq) == {seq[k] : k \in 1..Len(seq)}

\* concatenation of the sequences f[1], ..., f[n]
RECURSIVE Concat(_, _)
Concat(f, n) == IF n = 0 THEN <<>> ELSE Concat(f, n - 1) \o f[n]

\* str(i) of the f-string f"{prefix}.{i}"
DigitChar == <<"0", "1", "2", "3", "4", "5", "6", "7", "8", "9">>

RECURSIVE IntToStr(_)
IntToStr(i) == IF i < 10 THEN <<DigitChar[i + 1]>>
               ELSE IntToStr(i \div 10) \o <<DigitChar[(i % 10) + 1]>>

\* prefix.lstrip(".")
RECURSIVE LStripDot(_)
LStripDot(p) == IF p # <<>> /\ Head(p) = "." THEN LStripDot(Tail(p)) ELSE p

-----------------------------------------------------------------------------
(* Regular expressions: a compiled pattern is a sequence of atoms, a       *)
(* literal character, "." (any character) or a starred atom.               *)

Lit(c) == [k |-> "lit", c |-> c]
AnyChar == [k |-> "any"]
Star(a) == [k |-> "star", a |-> a]

AtomMatches(a, c) == \/ a.k = "any"
                     \/ a.k = "lit" /\ a.c = c

\* the pattern from position i on matches the text from position j to its end
RECURSIVE MatchFrom(_, _, _, _)
MatchFrom(r, i, s, j) ==
    IF i > Len(r) THEN j > Len(s)
    ELSE IF r[i].k = "star"
         THEN \/ MatchFrom(r, i + 1, s, j)
              \/ /\ j <= Len(s)
                 /\ AtomMatches(r[i].a, s[j])
                 /\ MatchFrom(r, i, s, j + 1)
         ELSE /\ j <= Len(s)
              /\ AtomMatches(r[i], s[j])
              /\ MatchFrom(r, i + 1, s, j + 1)

fullmatch(r, s) == MatchFrom(r, 1, s, 1)

should_tokenize_field(fields_to_tokenize, field_name) ==
    IF fields_to_tokenize = None THEN TRUE
    ELSE \E k \in 1..Len(fields_to_tokenize.items) :
             fullmatch(fields_to_tokenize.items[k], field_name)

\* the (name, string) pairs the generator yields, in the order it yields them
RECURSIVE find_string_objects(_, _, _)
find_string_objects(o, prefix, fields_to_tokenize) ==
    LET p == LStripDot(prefix) IN
    IF o.t = "str"
    THEN IF should_tokenize_field(fields_to_tokenize, p) THEN << <<p, o.s>> >> ELSE <<>>
    ELSE IF o.t = "list"
    THEN Concat([i \in 1..Len(o.items) |->
                    find_string_objects(o.items[i], p \o <<".">> \o IntToStr(i - 1),
                                        fields_to_tokenize)],
                Len(o.items))
    ELSE IF o.t = "dict"
    THEN Concat([i \in 1..Len(o.entries) |->
                    find_string_objects(o.entries[i][2], p \o <<".">> \o o.entries[i][1],
                                        fields_to_tokenize)],
                Len(o.entries))
    ELSE <<>>

-----------------------------------------------------------------------------
(* The tokenizer library, as far as the steps use it.  A tokenizer is a    *)
(* fixed function of the text it is given.                                 *)

DefaultMaxLength == 512

Tokenizers ==
    [ bert  |-> [pad_token_type_id |-> 0, pad_token_id |-> 0, cls |-> 101, sep |-> 102,
                 vocab |-> {<<"[PAD]", 0>>, <<"[CLS]", 101>>, <<"[SEP]", 102>>}],
      xlnet |-> [pad_token_type_id |-> 3, pad_token_id |-> 5, cls |-> 3, sep |-> 4,
                 vocab |-> {<<"<pad>", 5>>, <<"<cls>", 3>>, <<"<sep>", 4>>}] ]

TokenizerNames == {"bert", "xlnet"}

get_tokenizer(tokenizer_name) == Tokenizers[tokenizer_name]

\* variant: the assert only rejects a negative id
pad_token_type_id_nonnegative(tok) == tok.pad_token_type_id >= 0

\* the assert of lines 102 and 217
pad_token_type_id_ok(tok) == tok.pad_token_type_id = 0

WordPieces(text) ==
    CASE text = "x" -> <<11>>
      [] text = "y" -> <<12, 13>>
      [] text = "z" -> <<14, 15, 16>>
      [] text = "g" -> <<21, 22>>
      [] text = "h" -> <<23>>
      [] text = "p" -> <<31>>
      [] text = "q" -> <<32, 33, 34>>
      [] OTHER -> <<>>

\* truncation strategy "longest_first": drop the last token of the longer sequence
RECURSIVE TruncatePair(_, _, _)
TruncatePair(a, b, budget) ==
    IF Len(a) + Len(b) <= budget \/ (a = <<>> /\ b = <<>>) THEN <<a, b>>
    ELSE IF Len(a) > Len(b) THEN TruncatePair(SubSeq(a, 1, Len(a) - 1), b, budget)
    ELSE TruncatePair(a, SubSeq(b, 1, Len(b) - 1), budget)

Offsets(n) == [k \in 1..n |-> <<k - 1, k>>]
Const(n, v) == [k \in 1..n |-> v]

\* the encoding of one element of the batch: <<text>> or <<text, text_pair>>
EncodeOne(tok, item, o) ==
    LET paired == Len(item) = 2
        nSpecial == IF ~o.add_special_tokens THEN 0 ELSE IF paired THEN 3 ELSE 2
        a0 == WordPieces(item[1])
        b0 == IF paired THEN WordPieces(item[2]) ELSE <<>>
        tr == IF o.truncation THEN TruncatePair(a0, b0, o.max_length - nSpecial)
              ELSE <<a0, b0>>
        a == tr[1]
        b == tr[2]
        sp == o.add_special_tokens
    IN [ input_ids |->
             (IF sp THEN <<tok.cls>> ELSE <<>>) \o a \o (IF sp THEN <<tok.sep>> ELSE <<>>)
             \o b \o (IF sp /\ paired THEN <<tok.sep>> ELSE <<>>),
         token_type_ids |->
             Const((IF sp THEN 2 ELSE 0) + Len(a), 0)
             \o Const(Len(b) + (IF sp /\ paired THEN 1 ELSE 0), 1),
         special_tokens_mask |->
             (IF sp THEN <<1>> ELSE <<>>) \o Const(Len(a), 0) \o (IF sp THEN <<1>> ELSE <<>>)
             \o Const(Len(b), 0) \o (IF sp /\ paired THEN <<1>> ELSE <<>>),
         offset_mapping |->
             (IF sp THEN << <<0, 0>> >> ELSE <<>>) \o Offsets(Len(a))
             \o (IF sp THEN << <<0, 0>> >> ELSE <<>>)
             \o Offsets(Len(b)) \o (IF sp /\ paired THEN << <<0, 0>> >> ELSE <<>>) ]

\* tokenizer.batch_encode_plus: one list per requested key, one entry per batch element
batch_encode_plus(tok, batch, o) ==
    LET e == [i \in 1..Len(batch) |-> EncodeOne(tok, batch[i], o)]
        ids == [i \in 1..Len(batch) |-> e[i].input_ids]
        tts == [i \in 1..Len(batch) |-> e[i].token_type_ids]
        stm == [i \in 1..Len(batch) |-> e[i].special_tokens_mask]
        off == [i \in 1..Len(batch) |-> e[i].offset_mapping]
    IN IF o.return_special_tokens_mask /\ o.return_offsets_mapping
       THEN [input_ids |-> ids, token_type_ids |-> tts,
             special_tokens_mask |-> stm, offset_mapping |-> off]
       ELSE IF o.return_special_tokens_mask
       THEN [input_ids |-> ids, token_type_ids |-> tts, special_tokens_mask |-> stm]
       ELSE IF o.return_offsets_mapping
       THEN [input_ids |-> ids, token_type_ids |-> tts, offset_mapping |-> off]
       ELSE [input_ids |-> ids, token_type_ids |-> tts]

\* torch.tensor(data, dtype=...)
Int32Tensor(data) == [t |-> "tensor", dtype |-> "int32", data |-> data]
BoolTensor(data) ==
    [t |-> "tensor", dtype |-> "bool", data |-> [k \in 1..Len(data) |-> data[k] # 0]]

-----------------------------------------------------------------------------
(* Vocabulary objects.  A vocabulary is a set of <<namespace, token, index>> *)
(* entries; the objects live in the heap and are passed by reference.        *)

Ref(id) == [t |-> "ref", id |-> id]

Vocabulary_empty == {}

\* vocab.add_transformer_vocab(tokenizer, namespace): the tokenizer's vocabulary
\* becomes the content of the namespace, token by token
add_transformer_vocab(v, tok, namespace) ==
    {e \in v : ~(e[1] = namespace /\ \E w \in tok.vocab : w[1] = e[2])}
    \cup {<<namespace, w[1], w[2]>> : w \in tok.vocab}

\* variant: vocab = input.vocab, no copy
deepcopy_alias(h, ref) == [heap |-> h, ref |-> ref]

\* copy.deepcopy(input.vocab): a new object with the same content
deepcopy(h, ref) == [heap |-> Append(h, h[ref.id]), ref |-> Ref(Len(h) + 1)]

\* Vocabulary.empty(): a new object
new_vocabulary(h) == [heap |-> Append(h, Vocabulary_empty), ref |-> Ref(Len(h) + 1)]

-----------------------------------------------------------------------------
(* TextOnlyDataset.run, lines 68-80 *)

text_key == <<"t", "e", "x", "t">>

\* variant: the comprehension without its `if`
RECURSIVE kept_fields_unfiltered(_, _, _)
kept_fields_unfiltered(instance, fields_to_keep, n) ==
    IF n = 0 THEN <<>>
    ELSE kept_fields_unfiltered(instance, fields_to_keep, n - 1)
         \o << D(<< <<text_key, instance.entries[n][2]>> >>) >>

\* [{"text": field_value} for field_name, field_value in instance.items()
\*                        if field_name in fields_to_keep]
RECURSIVE kept_fields(_, _, _)
kept_fields(instance, fields_to_keep, n) ==
    IF n = 0 THEN <<>>
    ELSE kept_fields(instance, fields_to_keep, n - 1)
         \o (IF instance.entries[n][1] \in fields_to_keep
             THEN << D(<< <<text_key, instance.entries[n][2]>> >>) >>
             ELSE <<>>)

text_only_split(split, fields_to_keep) ==
    Concat([i \in 1..Len(split) |->
               kept_fields(split[i], fields_to_keep, Len(split[i].entries))],
           Len(split))

text_only_splits(splits, fields_to_keep) ==
    [j \in 1..Len(splits) |-> <<splits[j][1], text_only_split(splits[j][2], fields_to_keep)>>]

-----------------------------------------------------------------------------
(* Tokenize.run, lines 91-202 *)

\* lines 133-138: the (name, string) pairs of every instance of every split
found_pairs(splits, fields_to_tokenize) ==
    Concat([j \in 1..Len(splits) |->
               Concat([i \in 1..Len(splits[j][2]) |->
                          find_string_objects(splits[j][2][i], <<>>, fields_to_tokenize)],
                      Len(splits[j][2]))],
           Len(splits))

\* lines 146-153: the keyword arguments of the batch_encode_plus call
tokenize_options(a) ==
    [add_special_tokens |-> a.add_special_tokens,
     truncation |-> a.max_length # None,
     max_length |-> IF a.max_length = None THEN 0 ELSE a.max_length.n,
     return_special_tokens_mask |-> a.special_tokens_mask,
     return_offsets_mapping |-> a.offset_mapping]

\* lines 158-171: the TransformerTextField made in iteration i of the comprehension
make_field(enc, tok, k) ==
    [t |-> "field",
     input_ids |-> Int32Tensor(enc.input_ids[k]),
     token_type_ids |-> Int32Tensor(enc.token_type_ids[k]),
     attention_mask |->
         IF "attention_mask" \in DOMAIN enc THEN BoolTensor(enc.attention_mask[k]) ELSE None,
     special_tokens_mask |->
         IF "special_tokens_mask" \in DOMAIN enc THEN BoolTensor(enc.special_tokens_mask[k])
         ELSE None,
     offset_mapping |->
         IF "offset_mapping" \in DOMAIN enc THEN Int32Tensor(enc.offset_mapping[k]) ELSE None,
     padding_token_id |-> tok.pad_token_id,
     obj |-> k - 1]

\* variant: the first field made for a string is kept
RECURSIVE make_string_to_field_first(_, _, _, _)
make_string_to_field_first(strs, enc, tok, n) ==
    IF n = 0 THEN [s \in {} |-> None]
    ELSE LET prev == make_string_to_field_first(strs, enc, tok, n - 1)
         IN [s \in DOMAIN prev \cup {strs[n]} |->
                IF s \in DOMAIN prev THEN prev[s] ELSE make_field(enc, tok, n)]

\* lines 157-173: the dict comprehension; a later i overwrites an earlier equal key
RECURSIVE make_string_to_field(_, _, _, _)
make_string_to_field(strs, enc, tok, n) ==
    IF n = 0 THEN [s \in {} |-> None]
    ELSE LET prev == make_string_to_field(strs, enc, tok, n - 1)
         IN [s \in DOMAIN prev \cup {strs[n]} |->
                IF s = strs[n] THEN make_field(enc, tok, n) ELSE prev[s]]

\* variant: lists are returned as they are
RECURSIVE replace_string_objects_no_lists(_, _)
replace_string_objects_no_lists(o, s2f) ==
    IF o.t = "str" THEN (IF o.s \in DOMAIN s2f THEN s2f[o.s] ELSE o)
    ELSE IF o.t = "dict"
    THEN D([i \in 1..Len(o.entries) |->
               <<o.entries[i][1], replace_string_objects_no_lists(o.entries[i][2], s2f)>>])
    ELSE o

\* lines 175-186
RECURSIVE replace_string_objects(_, _)
replace_string_objects(o, s2f) ==
    IF o.t = "str" THEN (IF o.s \in DOMAIN s2f THEN s2f[o.s] ELSE o)
    ELSE IF o.t = "list"
    THEN L([i \in 1..Len(o.items) |-> replace_string_objects(o.items[i], s2f)])
    ELSE IF o.t = "dict"
    THEN D([i \in 1..Len(o.entries) |->
               <<o.entries[i][1], replace_string_objects(o.entries[i][2], s2f)>>])
    ELSE o

\* lines 188-191; a split is a list (or Dataset) of instances
make_new_splits(splits, s2f) ==
    [j \in 1..Len(splits) |->
        <<splits[j][1], replace_string_objects(L(splits[j][2]), s2f).items>>]

-----------------------------------------------------------------------------
(* PiqaInstances.run, lines 211-275 *)

\* lines 219-231
piqa_reshape(loaded_splits) ==
    [j \in 1..Len(loaded_splits) |->
        <<loaded_splits[j][1],
          [i \in 1..Len(loaded_splits[j][2]) |->
              LET instance == loaded_splits[j][2][i]
              IN [correct_alternative |-> instance.label,
                  alternatives |-> << <<instance.goal, instance.sol1>>,
                                      <<instance.goal, instance.sol2>> >>]]>>]

\* line 237: [alternative for instance in instances for alternative in instance["alternatives"]]
all_alternatives(instances) ==
    Concat([i \in 1..Len(instances) |-> instances[i].alternatives], Len(instances))

\* lines 238-242
piqa_options(a) ==
    [add_special_tokens |-> TRUE,
     truncation |-> TRUE,
     max_length |-> a.max_length,
     return_special_tokens_mask |-> FALSE,
     return_offsets_mapping |-> FALSE]

\* lines 235-245: one entry per split
piqa_tokenize(ds, tok, a) ==
    [j \in 1..Len(ds) |->
        <<ds[j][1], batch_encode_plus(tok, all_alternatives(ds[j][2]), piqa_options(a))>>]

\* tokenized[split_name]
lookup(d, key) == d[CHOOSE j \in 1..Len(d) : d[j][1] = key][2]

\* variant: the indices without the factor 2
alt_indices_unscaled(i) == <<i, i + 1>>

\* line 260: for alt_index in [2 * i, 2 * i + 1]
alt_indices(i) == <<2 * i, 2 * i + 1>>

\* variant: label 0 counts as unlabelled
has_label_positive(label) == label > 0

\* line 264
has_label(label) == label >= 0

\* lines 254-259
piqa_field(tokenized_alts, alt_index) ==
    [t |-> "field",
     input_ids |-> Int32Tensor(tokenized_alts.input_ids[alt_index + 1]),
     token_type_ids |-> Int32Tensor(tokenized_alts.token_type_ids[alt_index + 1])]

\* lines 252-268: the Instance made for instance i of a split
piqa_instance(split_name, i, instance, tokenized_alts) ==
    LET alts == [t |-> "ListField",
                 field_list |-> [n \in 1..2 |->
                                    piqa_field(tokenized_alts, alt_indices(i)[n])],
                 obj |-> <<split_name, i>>]
    IN IF has_label(instance.correct_alternative)
       THEN [alternatives |-> alts,
             correct_alternative |-> [t |-> "IndexField",
                                      sequence_index |-> instance.correct_alternative,
                                      sequence_field |-> alts]]
       ELSE [alternatives |-> alts]

\* lines 247-269
piqa_result(ds, tokd) ==
    [j \in 1..Len(ds) |->
        <<ds[j][1],
          [k \in 1..Len(ds[j][2]) |->
              piqa_instance(ds[j][1], k - 1, ds[j][2][k], lookup(tokd, ds[j][1]))]>>]

tokens_namespace == <<"t", "o", "k", "e", "n", "s">>

-----------------------------------------------------------------------------
(* Inputs *)

SplitNames == <<"train", "validation", "test", "extra">>

ka == <<"a">>
kb == <<"b">>
kc == <<"c">>

InstancePool ==
    { D(<< <<ka, S("x")>>, <<kb, S("x")>> >>),
      D(<< <<ka, S("y")>>, <<kb, N(7)>> >>),
      D(<< <<ka, L(<<S("x"), D(<< <<kc, S("z")>> >>)>>)>>, <<kb, S("y")>> >>),
      D(<< <<kb, D(<< <<kc, L(<<S("z"), N(7)>>)>> >>)>> >>),
      D(<< <<kb, S("x")>>, <<ka, S("z")>> >>),
      D(<<>>) }

PiqaPool == [goal : {"g", "h"}, sol1 : {"p"}, sol2 : {"q"}, label : {-1, 0, 1}]

InstanceSeqs(pool) == UNION {[1..n -> pool] : n \in 0..MaxInstances}

\* the ways of cutting n instances into ns consecutive splits
Cuts(ns, n) == {c \in [0..ns -> 0..n] :
                   /\ c[0] = 0
                   /\ c[ns] = n
                   /\ \A j \in 1..ns : c[j - 1] <= c[j]}

\* split name -> list of instances, in insertion order
SplitsOver(pool) ==
    UNION {{[j \in 1..ns |-> <<SplitNames[j], SubSeq(insts, c[j - 1] + 1, c[j])>>] :
               c \in Cuts(ns, Len(insts))} :
           insts \in InstanceSeqs(pool), ns \in 0..MaxSplits}

source_metadata == D(<< <<<<"s", "o", "u", "r", "c", "e">>, S("huggingface")>> >>)

ExistingVocab == {<<<<"l">>, "pos", 0>>, <<ka, "[CLS]", 7>>, <<ka, "old", 8>>}

Inputs == [splits : SplitsOver(InstancePool), vocab : {None, Ref(1)}, metadata : {source_metadata}]

NoInput == [splits |-> <<>>, vocab |-> None, metadata |-> None]

InitialHeap(inp) == IF inp.vocab = None THEN <<>> ELSE <<ExistingVocab>>

re_a == <<Lit("a")>>
re_b == <<Lit("b")>>
re_a_dot_any == <<Lit("a"), Lit("."), Star(AnyChar)>>

TokenizeArgs ==
    { [fields_to_tokenize |-> None, add_special_tokens |-> TRUE,
       max_length |-> N(DefaultMaxLength), special_tokens_mask |-> FALSE,
       offset_mapping |-> FALSE],
      [fields_to_tokenize |-> L(<<re_a>>), add_special_tokens |-> TRUE,
       max_length |-> N(4), special_tokens_mask |-> TRUE, offset_mapping |-> FALSE],
      [fields_to_tokenize |-> L(<<re_a_dot_any, re_b>>), add_special_tokens |-> FALSE,
       max_length |-> None, special_tokens_mask |-> FALSE, offset_mapping |-> TRUE],
      [fields_to_tokenize |-> L(<<re_b>>), add_special_tokens |-> TRUE,
       max_length |-> N(DefaultMaxLength), special_tokens_mask |-> TRUE,
       offset_mapping |-> TRUE],
      [fields_to_tokenize |-> L(<<>>), add_special_tokens |-> TRUE,
       max_length |-> N(DefaultMaxLength), special_tokens_mask |-> FALSE,
       offset_mapping |-> FALSE] }

PiqaMaxLengths == {DefaultMaxLength, 5}

-----------------------------------------------------------------------------
(* State machine *)

Steps == {"text_only", "hf_tokenizer", "piqa_instances"}

LocalsInit ==
    /\ pc = "start"
    /\ tokenizer = None
    /\ field_names_used = {}
    /\ strings = <<>>
    /\ encoded = None
    /\ string_to_field = None
    /\ new_splits = None
    /\ vocab = None
    /\ visited = {}
    /\ dataset = None
    /\ tokenized = None
    /\ calls = <<>>
    /\ loaded = FALSE
    /\ result = None
    /\ exception = "none"

Init ==
    /\ \/ /\ step = "text_only"
          /\ input \in Inputs
          /\ args \in [fields_to_keep : SUBSET {ka, kb}]
          /\ piqa = None
       \/ /\ step = "hf_tokenizer"
          /\ input \in Inputs
          /\ \E tn \in TokenizerNames, a \in TokenizeArgs :
                 args = [tokenizer_name |-> tn,
                         fields_to_tokenize |-> a.fields_to_tokenize,
                         add_special_tokens |-> a.add_special_tokens,
                         max_length |-> a.max_length,
                         special_tokens_mask |-> a.special_tokens_mask,
                         offset_mapping |-> a.offset_mapping]
          /\ piqa = None
       \/ /\ step = "piqa_instances"
          /\ input = NoInput
          /\ args \in [tokenizer_name : TokenizerNames, max_length : PiqaMaxLengths]
          /\ piqa \in SplitsOver(PiqaPool)
    /\ heap = InitialHeap(input)
    /\ LocalsInit
    /\ runNo = 1
    /\ firstOutcome = None

\* the returned dataset with its vocabulary read from the heap, or the exception
Outcome ==
    IF exception # "none" THEN [exception |-> exception]
    ELSE [exception |-> "none",
          dataset |-> result,
          vocab |-> IF result.vocab = None THEN None
                    ELSE [t |-> "Vocabulary", entries |-> heap[result.vocab.id]]]

\* TextOnlyDataset.run: dataclasses.replace(input, splits=...)
TextOnly_run ==
    /\ pc = "start"
    /\ step = "text_only"
    /\ result' = [splits |-> text_only_splits(input.splits, args.fields_to_keep),
                  vocab |-> input.vocab,
                  metadata |-> input.metadata]
    /\ pc' = "done"
    /\ UNCHANGED <<step, args, input, heap, piqa, tokenizer, field_names_used, strings,
                   encoded, string_to_field, new_splits, vocab, visited, dataset,
                   tokenized, calls, loaded, exception, runNo, firstOutcome>>

\* lines 101-102
Tokenize_get_tokenizer ==
    /\ pc = "start"
    /\ step = "hf_tokenizer"
    /\ tokenizer' = get_tokenizer(args.tokenizer_name)
    /\ IF pad_token_type_id_ok(tokenizer')
       THEN pc' = "find" /\ UNCHANGED exception
       ELSE pc' = "failed" /\ exception' = "AssertionError"
    /\ UNCHANGED <<step, args, input, heap, piqa, field_names_used, strings, encoded,
                   string_to_field, new_splits, vocab, visited, dataset, tokenized,
                   calls, loaded, result, runNo, firstOutcome>>

\* lines 104-138
Tokenize_find_strings ==
    /\ pc = "find"
    /\ LET pairs == found_pairs(input.splits, args.fields_to_tokenize)
       IN /\ field_names_used' = {pairs[k][1] : k \in 1..Len(pairs)}
          /\ strings' = [k \in 1..Len(pairs) |-> pairs[k][2]]
    /\ pc' = "encode"
    /\ UNCHANGED <<step, args, input, heap, piqa, tokenizer, encoded, string_to_field,
                   new_splits, vocab, visited, dataset, tokenized, calls, loaded, result,
                   exception, runNo, firstOutcome>>

\* lines 145-154
Tokenize_batch_encode ==
    /\ pc = "encode"
    /\ calls' = Append(calls, strings)
    /\ encoded' = batch_encode_plus(tokenizer, [k \in 1..Len(strings) |-> <<strings[k]>>],
                                    tokenize_options(args))
    /\ pc' = "fields"
    /\ UNCHANGED <<step, args, input, heap, piqa, tokenizer, field_names_used, strings,
                   string_to_field, new_splits, vocab, visited, dataset, tokenized,
                   loaded, result, exception, runNo, firstOutcome>>

\* lines 157-173
Tokenize_make_fields ==
    /\ pc = "fields"
    /\ string_to_field' = make_string_to_field(strings, encoded, tokenizer, Len(strings))
    /\ pc' = "replace"
    /\ UNCHANGED <<step, args, input, heap, piqa, tokenizer, field_names_used, strings,
                   encoded, new_splits, vocab, visited, dataset, tokenized, calls,
                   loaded, result, exception, runNo, firstOutcome>>

\* lines 188-191
Tokenize_replace ==
    /\ pc = "replace"
    /\ new_splits' = make_new_splits(input.splits, string_to_field)
    /\ pc' = "vocab"
    /\ UNCHANGED <<step, args, input, heap, piqa, tokenizer, field_names_used, strings,
                   encoded, string_to_field, vocab, visited, dataset, tokenized, calls,
                   loaded, result, exception, runNo, firstOutcome>>

\* lines 194-197
Tokenize_make_vocab ==
    /\ pc = "vocab"
    /\ LET made == IF input.vocab # None THEN deepcopy(heap, input.vocab)
                   ELSE new_vocabulary(heap)
       IN heap' = made.heap /\ vocab' = made.ref
    /\ pc' = "add_vocab"
    /\ UNCHANGED <<step, args, input, piqa, tokenizer, field_names_used, strings,
                   encoded, string_to_field, new_splits, visited, dataset, tokenized,
                   calls, loaded, result, exception, runNo, firstOutcome>>

\* variant: the loop is left after its first iteration
Tokenize_add_vocab_first_only ==
    /\ pc = "add_vocab"
    /\ \E name \in field_names_used \ visited :
          /\ heap' = [heap EXCEPT ![vocab.id] = add_transformer_vocab(@, tokenizer, name)]
          /\ visited' = field_names_used
    /\ UNCHANGED <<step, args, input, piqa, pc, tokenizer, field_names_used, strings,
                   encoded, string_to_field, new_splits, vocab, dataset, tokenized,
                   calls, loaded, result, exception, runNo, firstOutcome>>

\* lines 199-200: one iteration of `for name in field_names_used`; a set is
\* iterated in an order the program does not control
Tokenize_add_vocab ==
    /\ pc = "add_vocab"
    /\ \E name \in field_names_used \ visited :
          /\ heap' = [heap EXCEPT ![vocab.id] = add_transformer_vocab(@, tokenizer, name)]
          /\ visited' = visited \cup {name}
    /\ UNCHANGED <<step, args, input, piqa, pc, tokenizer, field_names_used, strings,
                   encoded, string_to_field, new_splits, vocab, dataset, tokenized,
                   calls, loaded, result, exception, runNo, firstOutcome>>

\* line 202
Tokenize_return ==
    /\ pc = "add_vocab"
    /\ visited = field_names_used
    /\ result' = [splits |-> new_splits, vocab |-> vocab]
    /\ pc' = "done"
    /\ UNCHANGED <<step, args, input, heap, piqa, tokenizer, field_names_used, strings,
                   encoded, string_to_field, new_splits, vocab, visited, dataset,
                   tokenized, calls, loaded, exception, runNo, firstOutcome>>

\* lines 216-217
Piqa_get_tokenizer ==
    /\ pc = "start"
    /\ step = "piqa_instances"
    /\ tokenizer' = get_tokenizer(args.tokenizer_name)
    /\ IF pad_token_type_id_ok(tokenizer')
       THEN pc' = "load" /\ UNCHANGED exception
       ELSE pc' = "failed" /\ exception' = "AssertionError"
    /\ UNCHANGED <<step, args, input, heap, piqa, field_names_used, strings, encoded,
                   string_to_field, new_splits, vocab, visited, dataset, tokenized,
                   calls, loaded, result, runNo, firstOutcome>>

\* lines 219-231
Piqa_load ==
    /\ pc = "load"
    /\ loaded' = TRUE
    /\ dataset' = piqa_reshape(piqa)
    /\ pc' = "tokenize"
    /\ UNCHANGED <<step, args, input, heap, piqa, tokenizer, field_names_used, strings,
                   encoded, string_to_field, new_splits, vocab, visited, tokenized,
                   calls, result, exception, runNo, firstOutcome>>

\* lines 235-245
Piqa_tokenize ==
    /\ pc = "tokenize"
    /\ tokenized' = piqa_tokenize(dataset, tokenizer, args)
    /\ calls' = calls \o [j \in 1..Len(dataset) |-> all_alternatives(dataset[j][2])]
    /\ pc' = "build"
    /\ UNCHANGED <<step, args, input, heap, piqa, tokenizer, field_names_used, strings,
                   encoded, string_to_field, new_splits, vocab, visited, dataset,
                   loaded, result, exception, runNo, firstOutcome>>

\* lines 247-275
Piqa_build ==
    /\ pc = "build"
    /\ LET made == new_vocabulary(heap)
       IN /\ heap' = [made.heap EXCEPT ![made.ref.id] =
                         add_transformer_vocab(@, tokenizer, tokens_namespace)]
          /\ vocab' = made.ref
          /\ result' = [splits |-> piqa_result(dataset, tokenized), vocab |-> made.ref]
    /\ pc' = "done"
    /\ UNCHANGED <<step, args, input, piqa, tokenizer, field_names_used, strings,
                   encoded, string_to_field, new_splits, visited, dataset, tokenized,
                   calls, loaded, exception, runNo, firstOutcome>>

\* the framework invokes the same step again with the same declared inputs
Rerun ==
    /\ pc \in {"done", "failed"}
    /\ runNo = 1
    /\ runNo' = 2
    /\ firstOutcome' = Outcome
    /\ heap' = SubSeq(heap, 1, Len(InitialHeap(input)))
    /\ pc' = "start"
    /\ tokenizer' = None
    /\ field_names_used' = {}
    /\ strings' = <<>>
    /\ encoded' = None
    /\ string_to_field' = None
    /\ new_splits' = None
    /\ vocab' = None
    /\ visited' = {}
    /\ dataset' = None
    /\ tokenized' = None
    /\ calls' = <<>>
    /\ loaded' = FALSE
    /\ result' = None
    /\ exception' = "none"
    /\ UNCHANGED <<step, args, input, piqa>>

Next ==
    \/ TextOnly_run
    \/ Tokenize_get_tokenizer
    \/ Tokenize_find_strings
    \/ Tokenize_batch_encode
    \/ Tokenize_make_fields
    \/ Tokenize_replace
    \/ Tokenize_make_vocab
    \/ Tokenize_add_vocab
    \/ Tokenize_return
    \/ Piqa_get_tokenizer
    \/ Piqa_load
    \/ Piqa_tokenize
    \/ Piqa_build
    \/ Rerun

Spec == Init /\ [][Next]_vars

TypeOK ==
    /\ step \in Steps
    /\ pc \in {"start", "find", "encode", "fields", "replace", "vocab", "add_vocab",
               "load", "tokenize", "build", "done", "failed"}
    /\ runNo \in {1, 2}
    /\ visited \subseteq field_names_used
    /\ exception \in {"none", "AssertionError"}

-----------------------------------------------------------------------------
(* Properties *)

Finished == pc \in {"done", "failed"}

\* positions of equal strings in the collected list
HasDuplicateStrings == \E i, j \in 1..Len(strings) : i < j /\ strings[i] = strings[j]

LastIndexOf(s) == CHOOSE k \in 1..Len(strings) :
                      /\ strings[k] = s
                      /\ \A m \in 1..Len(strings) : strings[m] = s => m <= k

C2_AssertBeforeWork ==
    (/\ step \in {"hf_tokenizer", "piqa_instances"}
     /\ get_tokenizer(args.tokenizer_name).pad_token_type_id # 0
     /\ pc # "start")
    => /\ pc = "failed"
       /\ exception = "AssertionError"
       /\ strings = <<>>
       /\ field_names_used = {}
       /\ ~loaded
       /\ dataset = None
       /\ calls = <<>>
       /\ result = None

C2_Witness ==
    /\ pc = "failed"
    /\ exception = "AssertionError"
    /\ step = "piqa_instances"
    /\ piqa # <<>>

\* the (instance, field) positions of a split whose field name is kept
KeptPositions(split, keep) ==
    UNION {{<<i, n>> : n \in {m \in 1..Len(split[i].entries) :
                                 split[i].entries[m][1] \in keep}} :
           i \in 1..Len(split)}

Before(q, r) == q[1] < r[1] \/ (q[1] = r[1] /\ q[2] < r[2])

Rank(q, kept) == 1 + Cardinality({r \in kept : Before(r, q)})

\* C3: TextOnlyDataset.run keeps the split names, the vocabulary and the
\* metadata, and each output split is the list of {"text": value} records of
\* the kept (instance, field) pairs, in instance order and then field order.
C3_TextOnlyFilters ==
    (step = "text_only" /\ pc = "done")
    => /\ result.vocab = input.vocab
       /\ result.metadata = input.metadata
       /\ Len(result.splits) = Len(input.splits)
       /\ \A j \in 1..Len(input.splits) :
             LET split == input.splits[j][2]
                 out == result.splits[j][2]
                 kept == KeptPositions(split, args.fields_to_keep)
             IN /\ result.splits[j][1] = input.splits[j][1]
                /\ Len(out) = Cardinality(kept)
                /\ \A q \in kept :
                      out[Rank(q, kept)] =
                          D(<< <<text_key, split[q[1]].entries[q[2]][2]>> >>)

C3_Witness ==
    /\ step = "text_only"
    /\ pc = "done"
    /\ \E j \in 1..Len(input.splits) :
          /\ Len(result.splits[j][2]) # Len(input.splits[j][2])
          /\ Len(result.splits[j][2]) > 0
          /\ \E i \in 1..Len(input.splits[j][2]) :
                \E n \in 1..Len(input.splits[j][2][i].entries) :
                    input.splits[j][2][i].entries[n][1] \notin args.fields_to_keep

\* the output value has the shape of the input value, with a field wherever
\* the input has a string
RECURSIVE AllTokenized(_, _)
AllTokenized(oin, oout) ==
    IF oin.t = "str" THEN oout.t = "field"
    ELSE IF oin.t = "list"
    THEN /\ oout.t = "list"
         /\ Len(oout.items) = Len(oin.items)
         /\ \A i \in 1..Len(oin.items) : AllTokenized(oin.items[i], oout.items[i])
    ELSE IF oin.t = "dict"
    THEN /\ oout.t = "dict"
         /\ Len(oout.entries) = Len(oin.entries)
         /\ \A i \in 1..Len(oin.entries) :
               /\ oout.entries[i][1] = oin.entries[i][1]
               /\ AllTokenized(oin.entries[i][2], oout.entries[i][2])
    ELSE oout = oin

HasNestedString(instance) ==
    \E n \in 1..Len(instance.entries) :
        /\ instance.entries[n][2].t = "list"
        /\ \E i \in 1..Len(instance.entries[n][2].items) :
              instance.entries[n][2].items[i].t = "dict"

\* C4: with fields_to_tokenize = None, Tokenize.run returns the input's splits
\* and instances in the same order, with every string at any depth of lists
\* and dicts replaced by a TransformerTextField and everything else unchanged.
C4_AllStringsTokenized ==
    (step = "hf_tokenizer" /\ pc = "done" /\ args.fields_to_tokenize = None)
    => /\ Len(result.splits) = Len(input.splits)
       /\ \A j \in 1..Len(input.splits) :
             /\ result.splits[j][1] = input.splits[j][1]
             /\ Len(result.splits[j][2]) = Len(input.splits[j][2])
             /\ \A i \in 1..Len(input.splits[j][2]) :
                   AllTokenized(input.splits[j][2][i], result.splits[j][2][i])

C4_Witness ==
    /\ step = "hf_tokenizer"
    /\ pc = "done"
    /\ args.fields_to_tokenize = None
    /\ Len(input.splits) = 2
    /\ \E j \in 1..Len(input.splits) : \E i \in 1..Len(input.splits[j][2]) :
          HasNestedString(input.splits[j][2][i])

\* the dotted path of a component under a path: joined by ".", no leading "."
PathJoin(path, component) ==
    IF path = <<>> THEN component ELSE path \o <<".">> \o component

\* a string is replaced by a field exactly when its path is fully matched
RECURSIVE ReplacedIffPathMatches(_, _, _)
ReplacedIffPathMatches(oin, oout, path) ==
    IF oin.t = "str"
    THEN IF \E k \in 1..Len(args.fields_to_tokenize.items) :
                fullmatch(args.fields_to_tokenize.items[k], path)
         THEN oout.t = "field"
         ELSE oout = oin
    ELSE IF oin.t = "list"
    THEN /\ oout.t = "list"
         /\ Len(oout.items) = Len(oin.items)
         /\ \A i \in 1..Len(oin.items) :
               ReplacedIffPathMatches(oin.items[i], oout.items[i],
                                      PathJoin(path, IntToStr(i - 1)))
    ELSE IF oin.t = "dict"
    THEN /\ oout.t = "dict"
         /\ Len(oout.entries) = Len(oin.entries)
         /\ \A i \in 1..Len(oin.entries) :
               ReplacedIffPathMatches(oin.entries[i][2], oout.entries[i][2],
                                      PathJoin(path, oin.entries[i][1]))
    ELSE oout = oin

\* C5: with fields_to_tokenize given, a string of the input is replaced by a
\* field if and only if its dotted path is fully matched by one of the regular
\* expressions; a string at any other path stays the original string.
C5_OnlyMatchingPathsTokenized ==
    (step = "hf_tokenizer" /\ pc = "done" /\ args.fields_to_tokenize # None)
    => \A j \in 1..Len(input.splits) : \A i \in 1..Len(input.splits[j][2]) :
           ReplacedIffPathMatches(input.splits[j][2][i], result.splits[j][2][i], <<>>)

\* every (goal, solution) pair of every example of every split, in order
AllPiqaPairs ==
    Concat([j \in 1..Len(piqa) |->
               Concat([i \in 1..Len(piqa[j][2]) |->
                          << <<piqa[j][2][i].goal, piqa[j][2][i].sol1>>,
                             <<piqa[j][2][i].goal, piqa[j][2][i].sol2>> >>],
                      Len(piqa[j][2]))],
           Len(piqa))

\* C6: a finished run of Tokenize or PiqaInstances has called batch_encode_plus
\* exactly once, with every string to be tokenized.
C6_OneBatchCall ==
    (step \in {"hf_tokenizer", "piqa_instances"} /\ pc = "done")
    => /\ Len(calls) = 1
       /\ calls[1] = IF step = "hf_tokenizer" THEN strings ELSE AllPiqaPairs


\* every occurrence of a collected text is replaced by the one field made in
\* the last iteration for that text, and that field encodes that very text
RECURSIVE ReplacedByOwnField(_, _)
ReplacedByOwnField(oin, oout) ==
    IF oin.t = "str"
    THEN IF oin.s \in Range(strings)
         THEN /\ oout = string_to_field[oin.s]
              /\ oout.obj = LastIndexOf(oin.s) - 1
              /\ oout.input_ids.data =
                     EncodeOne(tokenizer, <<oin.s>>, tokenize_options(args)).input_ids
         ELSE oout = oin
    ELSE IF oin.t = "list"
    THEN /\ oout.t = "list"
         /\ Len(oout.items) = Len(oin.items)
         /\ \A i \in 1..Len(oin.items) : ReplacedByOwnField(oin.items[i], oout.items[i])
    ELSE IF oin.t = "dict"
    THEN /\ oout.t = "dict"
         /\ Len(oout.entries) = Len(oin.entries)
         /\ \A i \in 1..Len(oin.entries) :
               ReplacedByOwnField(oin.entries[i][2], oout.entries[i][2])
    ELSE oout = oin

\* C7: string_to_field maps every collected string s to the field built from
\* the entries of encoded at the largest index i with strings[i] = s, which are
\* the tokenizer's output for s; every occurrence of s in the output is that
\* one field object.
C7_FieldFromOwnEncoding ==
    (step = "hf_tokenizer" /\ pc = "done")
    => /\ DOMAIN string_to_field = Range(strings)
       /\ \A s \in Range(strings) :
             LET i == LastIndexOf(s)
                 f == string_to_field[s]
             IN /\ f.obj = i - 1
                /\ f.input_ids.data = encoded.input_ids[i]
                /\ f.token_type_ids.data = encoded.token_type_ids[i]
                /\ f.attention_mask = None
                /\ IF args.special_tokens_mask
                   THEN f.special_tokens_mask.data =
                            [k \in 1..Len(encoded.special_tokens_mask[i]) |->
                                encoded.special_tokens_mask[i][k] = 1]
                   ELSE f.special_tokens_mask = None
                /\ IF args.offset_mapping
                   THEN f.offset_mapping.data = encoded.offset_mapping[i]
                   ELSE f.offset_mapping = None
       /\ \A j \in 1..Len(input.splits) : \A i \in 1..Len(input.splits[j][2]) :
             ReplacedByOwnField(input.splits[j][2][i], result.splits[j][2][i])

C7_Witness ==
    /\ step = "hf_tokenizer"
    /\ pc = "done"
    /\ HasDuplicateStrings
    /\ Cardinality(Range(strings)) >= 2
    /\ args.offset_mapping

\* C8: no step of a run changes the input dataset or the vocabulary object it
\* refers to, and the vocabulary a run builds is never the input's object.
C8_InputUnchanged ==
    [][/\ input' = input
       /\ input.vocab # None => heap'[input.vocab.id] = heap[input.vocab.id]
       /\ vocab' # None => vocab' # input'.vocab]_vars

C8_Witness ==
    /\ step = "hf_tokenizer"
    /\ pc = "done"
    /\ input.vocab # None
    /\ field_names_used # {}
    /\ heap[result.vocab.id] # heap[input.vocab.id]

\* C9: PiqaInstances.run returns the loaded splits by name, one instance per
\* example in the same order; instance i carries exactly two alternatives, the
\* tokenizations of (goal, sol1) and (goal, sol2) of example i, which are the
\* entries 2*i and 2*i+1 of that split's batch.
C9_OneInstancePerExample ==
    (step = "piqa_instances" /\ pc = "done")
    => /\ Len(result.splits) = Len(piqa)
       /\ \A j \in 1..Len(piqa) :
             LET out == result.splits[j][2]
                 batch == lookup(tokenized, piqa[j][1])
             IN /\ result.splits[j][1] = piqa[j][1]
                /\ Len(out) = Len(piqa[j][2])
                /\ \A k \in 1..Len(out) :
                      LET ex == piqa[j][2][k]
                          fl == out[k].alternatives.field_list
                          e1 == EncodeOne(tokenizer, <<ex.goal, ex.sol1>>, piqa_options(args))
                          e2 == EncodeOne(tokenizer, <<ex.goal, ex.sol2>>, piqa_options(args))
                      IN /\ Len(fl) = 2
                         /\ fl[1].input_ids.data = e1.input_ids
                         /\ fl[1].token_type_ids.data = e1.token_type_ids
                         /\ fl[2].input_ids.data = e2.input_ids
                         /\ fl[2].token_type_ids.data = e2.token_type_ids
                         /\ fl[1].input_ids.data = batch.input_ids[2 * (k - 1) + 1]
                         /\ fl[2].input_ids.data = batch.input_ids[2 * (k - 1) + 2]

C9_Witness ==
    /\ step = "piqa_instances"
    /\ pc = "done"
    /\ Len(piqa) = 2
    /\ \E j \in 1..Len(piqa) :
          /\ Len(piqa[j][2]) = 2
          /\ piqa[j][2][1].goal # piqa[j][2][2].goal

\* C10: every returned instance has 'alternatives'; it has 'correct_alternative'
\* exactly when the example's label is >= 0, and then the index is the label
\* and the field refers to the instance's own alternatives list.
C10_CorrectAlternativeIffLabelled ==
    (step = "piqa_instances" /\ pc = "done")
    => \A j \in 1..Len(piqa) : \A k \in 1..Len(piqa[j][2]) :
           LET inst == result.splits[j][2][k]
               label == piqa[j][2][k].label
           IN /\ "alternatives" \in DOMAIN inst
              /\ ("correct_alternative" \in DOMAIN inst) <=> (label >= 0)
              /\ "correct_alternative" \in DOMAIN inst =>
                    /\ inst.correct_alternative.sequence_index = label
                    /\ inst.correct_alternative.sequence_field = inst.alternatives
                    /\ inst.alternatives.obj = <<piqa[j][1], k - 1>>

C10_Witness ==
    /\ step = "piqa_instances"
    /\ pc = "done"
    /\ \E j \in 1..Len(piqa) :
          /\ Len(piqa[j][2]) = 2
          /\ piqa[j][2][1].label = 0
          /\ piqa[j][2][2].label = -1

====
